---- MODULE Spec2Model ----
(***************************************************************************)
(* A model of GCN/GCN.py: the GraphConvolution layer and the two-layer GCN *)
(* module built from it.                                                   *)
(*                                                                         *)
(* Tensors are records carrying their shape and their entries.  Entries    *)
(* are integers: a parameter entry k is one of the sample points           *)
(* -stdv, 0, +stdv of the uniform draw, written in units of stdv.          *)
(* A raised Python exception is an Error record; a method is an operator   *)
(* from (self, arguments, random draw) to the object after the call and    *)
(* the value returned or the exception raised.                             *)
(***************************************************************************)
EXTENDS Integers, Sequences, FiniteSets, TLC

VARIABLES net, call, result, steps

vars == <<net, call, result, steps>>

\* Largest feature dimension passed to a constructor or carried by an input.
MaxFeat == 2
\* Largest number of graph nodes (rows of an input, side of an adjacency).
MaxNodes == 2
\* The random generator's outcomes are the streams 0..MaxSeed.
MaxSeed == 1

Seeds == 0..MaxSeed
\* Constructor dimensions: negative, zero and positive.
Dims == (-1)..MaxFeat

\* Dropout probabilities as fractions: -1/2, 0, 1/2, 1, 3/2.
Frac(n, d) == [num |-> n, den |-> d]
DropoutVals == {Frac(-1, 2), Frac(0, 1), Frac(1, 2), Frac(1, 1), Frac(3, 2)}
FracLess(p, q) == p.num * q.den < q.num * p.den
Zero == Frac(0, 1)
One == Frac(1, 1)

----------------------------------------------------------------------------
(* Values *)

None == [kind |-> "None"]

Error(type, reason) == [kind |-> "Error", type |-> type, reason |-> reason]
IsError(v) == v.kind = "Error"
IsTensor(v) == v.kind = "Tensor"

\* A dense r x c tensor and a vector of length n.
Tensor2(r, c, data) == [kind |-> "Tensor", shape |-> <<r, c>>, data |-> data]
Tensor1(n, data) == [kind |-> "Tensor", shape |-> <<n>>, data |-> data]

Rows(t) == t.shape[1]
Cols(t) == t.shape[2]

\* An allocator that takes a negative dimension for an empty one.
FloatTensor2_clamping(r, c) ==
    Tensor2(IF r < 0 THEN 0 ELSE r, IF c < 0 THEN 0 ELSE c,
            [i \in 1..r |-> [j \in 1..c |-> "uninitialized"]])

\* torch.FloatTensor(r, c): an uninitialised r x c tensor; a negative
\* dimension is refused by the allocator.
FloatTensor2(r, c) ==
    IF r < 0 \/ c < 0
    THEN Error("RuntimeError", "negative dimension")
    ELSE Tensor2(r, c, [i \in 1..r |-> [j \in 1..c |-> "uninitialized"]])

\* torch.FloatTensor(n)
FloatTensor1(n) ==
    IF n < 0
    THEN Error("RuntimeError", "negative dimension")
    ELSE Tensor1(n, [j \in 1..n |-> "uninitialized"])

\* The k-th number of random stream `seed`, in units of stdv.
Draw(seed, k) == ((seed + k) % 3) - 1

\* Tensor.uniform_(-stdv, stdv): every entry is overwritten by the next
\* number of the stream, in row-major order starting at offset `off`.
uniform_(t, seed, off) ==
    IF Len(t.shape) = 2
    THEN Tensor2(Rows(t), Cols(t),
                 [i \in 1..Rows(t) |-> [j \in 1..Cols(t) |->
                     Draw(seed, off + (i - 1) * Cols(t) + (j - 1))]])
    ELSE Tensor1(t.shape[1], [j \in 1..t.shape[1] |-> Draw(seed, off + (j - 1))])

Numel(t) == IF Len(t.shape) = 2 THEN Rows(t) * Cols(t) ELSE t.shape[1]

----------------------------------------------------------------------------
(* Tensor library calls made by the two classes *)

RECURSIVE Dot(_, _, _, _, _)
\* sum over k in 1..n of a[i][k] * b[k][j]
Dot(a, b, i, j, n) ==
    IF n = 0 THEN 0 ELSE Dot(a, b, i, j, n - 1) + a.data[i][n] * b.data[n][j]

\* A mm that multiplies over the common part of the inner dimensions instead
\* of refusing them.
mm_truncating(a, b) ==
    LET n == IF Cols(a) < Rows(b) THEN Cols(a) ELSE Rows(b)
    IN  Tensor2(Rows(a), Cols(b),
                [i \in 1..Rows(a) |-> [j \in 1..Cols(b) |-> Dot(a, b, i, j, n)]])

\* torch.mm(a, b): the dense product, refused when the inner dimensions differ.
mm(a, b) ==
    IF Cols(a) # Rows(b)
    THEN Error("RuntimeError", "size mismatch")
    ELSE Tensor2(Rows(a), Cols(b),
                 [i \in 1..Rows(a) |-> [j \in 1..Cols(b) |->
                     Dot(a, b, i, j, Cols(a))]])

\* torch.spmm() as the layer calls it: with no arguments, which the binding
\* refuses before any multiplication.
spmm == Error("TypeError", "spmm() missing arguments")

\* output + self.bias: the vector is added to every row.
add_bias(t, b) ==
    Tensor2(Rows(t), Cols(t),
            [i \in 1..Rows(t) |-> [j \in 1..Cols(t) |-> t.data[i][j] + b.data[j]]])

\* F.relu
relu(t) ==
    Tensor2(Rows(t), Cols(t),
            [i \in 1..Rows(t) |-> [j \in 1..Cols(t) |->
                IF t.data[i][j] > 0 THEN t.data[i][j] ELSE 0]])

\* Whether random stream `mask` keeps entry number k.
Keeps(mask, k) == (mask + k) % 2 = 0

\* F.dropout(t, p, training): p outside [0, 1] is refused whatever the mode;
\* outside training the input is returned as it is; in training each entry is
\* zeroed or rescaled by 1 / (1 - p), and p = 1 zeroes everything.
dropout(t, p, training, mask) ==
    IF FracLess(p, Zero) \/ FracLess(One, p)
    THEN Error("ValueError", "dropout probability has to be between 0 and 1")
    ELSE IF ~training
    THEN t
    ELSE IF p = One
    THEN Tensor2(Rows(t), Cols(t), [i \in 1..Rows(t) |-> [j \in 1..Cols(t) |-> 0]])
    ELSE Tensor2(Rows(t), Cols(t),
                 [i \in 1..Rows(t) |-> [j \in 1..Cols(t) |->
                     IF p = Zero \/ Keeps(mask, (i - 1) * Cols(t) + (j - 1))
                     THEN (t.data[i][j] * p.den) \div (p.den - p.num)
                     ELSE 0]])

\* F.log_softmax(t, dim=1): entry (i, j) is t[i][j] - log(sum_k exp(t[i][k])),
\* kept as that term over row i.
log_softmax(t) ==
    Tensor2(Rows(t), Cols(t),
            [i \in 1..Rows(t) |-> [j \in 1..Cols(t) |->
                [fn |-> "log_softmax", row |-> t.data[i], at |-> j]]])

----------------------------------------------------------------------------
(* class GraphConvolution *)

\* GraphConvolution.reset_parameters: stdv = 1 / sqrt(weight.size(1)), then
\* the weight and, when there is one, the bias are drawn anew.
reset_parameters(self, seed) ==
    IF Cols(self.weight) = 0
    THEN [self |-> self,
          ret |-> Error("ZeroDivisionError", "float division by zero")]
    ELSE [self |-> [self EXCEPT
                      !.weight = uniform_(self.weight, seed, 0),
                      !.bias = IF self.bias.kind # "None"
                               THEN uniform_(self.bias, seed, Numel(self.weight))
                               ELSE self.bias],
          ret |-> None]

\* GraphConvolution.__init__: the new layer, or the exception raised.
GraphConvolution_init(in_features, out_features, bias, seed) ==
    LET weight == FloatTensor2(in_features, out_features)
    IN  IF IsError(weight)
        THEN weight
        ELSE LET self == [kind |-> "GraphConvolution",
                          in_features |-> in_features,
                          out_features |-> out_features,
                          weight |-> weight,
                          bias |-> IF bias THEN FloatTensor1(out_features) ELSE None]
                 r == reset_parameters(self, seed)
             IN  IF IsError(r.ret) THEN r.ret ELSE r.self

\* A forward that draws the parameters anew on every call.
forward_resetting(self, input, adj) ==
    [self |-> reset_parameters(self, 0).self,
     ret |-> Error("TypeError", "spmm() missing arguments")]

\* GraphConvolution.forward: support = mm(input, weight); output = spmm();
\* then output + bias or output.  adj is not read.
forward(self, input, adj) ==
    LET support == mm(input, self.weight)
    IN  IF IsError(support)
        THEN [self |-> self, ret |-> support]
        ELSE LET output == spmm
             IN  IF IsError(output)
                 THEN [self |-> self, ret |-> output]
                 ELSE IF self.bias.kind # "None"
                 THEN [self |-> self, ret |-> add_bias(output, self.bias)]
                 ELSE [self |-> self, ret |-> output]

----------------------------------------------------------------------------
(* class GCN *)

\* A constructor that refuses a dropout probability outside [0, 1).
GCN_init_validating(n_feat, n_hid, n_class, p, seed) ==
    IF FracLess(p, Zero) \/ ~FracLess(p, One)
    THEN Error("ValueError", "dropout outside [0, 1)")
    ELSE LET gc1 == GraphConvolution_init(n_feat, n_hid, TRUE, seed)
             gc2 == GraphConvolution_init(n_hid, n_class, TRUE, seed)
         IN  IF IsError(gc1) THEN gc1
             ELSE IF IsError(gc2) THEN gc2
             ELSE [kind |-> "GCN", gc1 |-> gc1, gc2 |-> gc2,
                   dropout |-> p, training |-> TRUE]

\* GCN.__init__: gc1, then gc2 from the same random stream, then dropout is
\* stored.  Module.__init__ sets training.
GCN_init(n_feat, n_hid, n_class, p, seed) ==
    LET gc1 == GraphConvolution_init(n_feat, n_hid, TRUE, seed)
    IN  IF IsError(gc1)
        THEN gc1
        ELSE LET gc2 == GraphConvolution_init(
                            n_hid, n_class, TRUE,
                            seed + Numel(gc1.weight) + Numel(gc1.bias))
             IN  IF IsError(gc2)
                 THEN gc2
                 ELSE [kind |-> "GCN", gc1 |-> gc1, gc2 |-> gc2,
                       dropout |-> p, training |-> TRUE]

\* GCN.forward: relu(gc1(x, adj)), dropout, gc2(x, adj), log_softmax.  An
\* exception raised by a step ends the call; steps lists the calls begun.
GCN_forward(self, x, adj, mask) ==
    LET r1 == forward(self.gc1, x, adj)
        s1 == [self EXCEPT !.gc1 = r1.self]
    IN  IF IsError(r1.ret)
        THEN [self |-> s1, ret |-> r1.ret, steps |-> <<"gc1">>]
        ELSE
    LET h == relu(r1.ret)
        d == dropout(h, self.dropout, self.training, mask)
    IN  IF IsError(d)
        THEN [self |-> s1, ret |-> d, steps |-> <<"gc1", "relu", "dropout">>]
        ELSE
    LET r2 == forward(s1.gc2, d, adj)
        s2 == [s1 EXCEPT !.gc2 = r2.self]
    IN  IF IsError(r2.ret)
        THEN [self |-> s2, ret |-> r2.ret,
              steps |-> <<"gc1", "relu", "dropout", "gc2">>]
        ELSE [self |-> s2, ret |-> log_softmax(r2.ret),
              steps |-> <<"gc1", "relu", "dropout", "gc2", "log_softmax">>]

\* Module.train(mode), Module.eval(): set the training flag.
train(self, mode) == [self EXCEPT !.training = mode]

----------------------------------------------------------------------------
(* The caller: it constructs one module object and makes calls on it *)

\* The node-feature matrix with n rows and f columns.
Input(n, f) ==
    Tensor2(n, f, [i \in 1..n |-> [j \in 1..f |-> ((i + j) % 3) - 1]])

\* An r x c propagation matrix: ones on and below the diagonal.
Adjacency(r, c) ==
    Tensor2(r, c, [i \in 1..r |-> [j \in 1..c |-> IF j <= i THEN 1 ELSE 0]])

Inputs == {Input(n, f) : n \in 1..MaxNodes, f \in 0..MaxFeat}
Adjacencies == {Adjacency(r, c) : r \in 1..MaxNodes, c \in 1..MaxNodes}

\* The layers reachable from the object: itself, or a GCN's two layers.
Layers(obj) ==
    IF obj.kind = "GraphConvolution" THEN {"self"}
    ELSE IF obj.kind = "GCN" THEN {"gc1", "gc2"}
    ELSE {}

Layer(obj, path) ==
    IF path = "self" THEN obj ELSE IF path = "gc1" THEN obj.gc1 ELSE obj.gc2

WithLayer(obj, path, layer) ==
    IF path = "self" THEN layer
    ELSE IF path = "gc1" THEN [obj EXCEPT !.gc1 = layer]
    ELSE [obj EXCEPT !.gc2 = layer]

\* No call has been made, or the last one's outcome has been taken.
Idle == call.op = "none"

Init ==
    /\ net = None
    /\ call = [op |-> "none"]
    /\ result = None
    /\ steps = <<>>

\* net = GraphConvolution(in_features, out_features, bias), while no object
\* is held: a constructor that raises leaves none.
NewGraphConvolution ==
    /\ Idle
    /\ net.kind = "None"
    /\ \E i \in Dims, o \in Dims, b \in BOOLEAN, seed \in Seeds :
        LET r == GraphConvolution_init(i, o, b, seed)
        IN  /\ call' = [op |-> "GraphConvolution", in_features |-> i,
                        out_features |-> o, bias |-> b]
            /\ result' = r
            /\ net' = (IF IsError(r) THEN net ELSE r)
            /\ steps' = <<>>

\* net = GCN(n_feat, n_hid, n_class, dropout), while no object is held
NewGCN ==
    /\ Idle
    /\ net.kind = "None"
    /\ \E f \in Dims, h \in Dims, c \in Dims, p \in DropoutVals, seed \in Seeds :
        LET r == GCN_init(f, h, c, p, seed)
        IN  /\ call' = [op |-> "GCN", n_feat |-> f, n_hid |-> h, n_class |-> c,
                        dropout |-> p]
            /\ result' = r
            /\ net' = (IF IsError(r) THEN net ELSE r)
            /\ steps' = <<>>

\* layer.reset_parameters()
ResetParameters ==
    /\ Idle
    /\ \E path \in Layers(net), seed \in Seeds :
        LET r == reset_parameters(Layer(net, path), seed)
        IN  /\ call' = [op |-> "reset_parameters", path |-> path, self |-> net]
            /\ result' = r.ret
            /\ net' = WithLayer(net, path, r.self)
            /\ steps' = <<>>

\* layer.forward(input, adj)
Forward ==
    /\ Idle
    /\ \E path \in Layers(net), x \in Inputs, adj \in Adjacencies :
        LET r == forward(Layer(net, path), x, adj)
        IN  /\ call' = [op |-> "forward", path |-> path, self |-> net,
                        input |-> x, adj |-> adj]
            /\ result' = r.ret
            /\ net' = WithLayer(net, path, r.self)
            /\ steps' = <<>>

\* net.forward(x, adj) on a GCN
GCNForward ==
    /\ Idle
    /\ net.kind = "GCN"
    /\ \E x \in Inputs, adj \in Adjacencies, mask \in Seeds :
        LET r == GCN_forward(net, x, adj, mask)
        IN  /\ call' = [op |-> "GCN.forward", self |-> net,
                        input |-> x, adj |-> adj]
            /\ result' = r.ret
            /\ net' = r.self
            /\ steps' = r.steps

\* net.train(mode) / net.eval() on a GCN
Train ==
    /\ Idle
    /\ net.kind = "GCN"
    /\ \E mode \in BOOLEAN :
        /\ call' = [op |-> "train", self |-> net, mode |-> mode]
        /\ result' = None
        /\ net' = train(net, mode)
        /\ steps' = <<>>

\* The caller takes the value returned, or handles the exception raised.
Return ==
    /\ ~Idle
    /\ call' = [op |-> "none"]
    /\ result' = None
    /\ steps' = <<>>
    /\ UNCHANGED net

Next ==
    \/ NewGraphConvolution
    \/ NewGCN
    \/ ResetParameters
    \/ Forward
    \/ GCNForward
    \/ Train
    \/ Return

Spec == Init /\ [][Next]_vars

----------------------------------------------------------------------------
(* The properties *)

\* The layer a forward or reset_parameters call was made on, as it was before
\* the call.
Receiver == Layer(call.self, call.path)

IsShapeError(v) == IsError(v) /\ v.reason = "size mismatch"

\* input is N x in_features and adj is N x N, for a layer with features to
\* read.
Compatible(layer, x, adj) ==
    /\ layer.in_features > 0
    /\ Cols(x) = layer.in_features
    /\ Rows(adj) = Rows(x)
    /\ Cols(adj) = Rows(x)

\* adj x (input x weight) [+ bias], the transform the layer documents.
Convolved(layer, x, adj) ==
    LET product == mm(adj, mm(x, layer.weight))
    IN  IF layer.bias.kind # "None" THEN add_bias(product, layer.bias) ELSE product

HasBias(layer) == layer.bias.kind # "None"

InUnitRange(p) == ~FracLess(p, Zero) /\ FracLess(p, One)

\* C1: for every layer and every compatible input and adjacency, forward
\* returns adjacency x (input x weight), plus the bias on every row when the
\* layer has one (so adjacency x input when weight is the identity and there
\* is no bias).
C1_ForwardReturnsConvolution ==
    (call.op = "forward" /\ Compatible(Receiver, call.input, call.adj))
        => result = Convolved(Receiver, call.input, call.adj)

\* C2: a forward call whose input's column count differs from the layer's
\* in_features raises the shape-mismatch error and returns nothing.
C2_InputWidthMismatchRaises ==
    (call.op = "forward" /\ Cols(call.input) # Receiver.in_features)
        => IsShapeError(result)

C2_Witness ==
    /\ call.op = "forward"
    /\ Cols(call.input) # Receiver.in_features
    /\ Cols(call.input) > 0
    /\ Receiver.in_features > 0
    /\ IsShapeError(result)

\* C3: a forward call with an input of N rows and in_features columns and an
\* adjacency that is not N x N raises the shape-mismatch error.
C3_AdjacencyShapeChecked ==
    (/\ call.op = "forward"
     /\ Receiver.in_features > 0
     /\ Cols(call.input) = Receiver.in_features
     /\ ~Compatible(Receiver, call.input, call.adj))
        => IsShapeError(result)

\* C4: on compatible arguments GraphConvolution.forward returns a tensor of
\* shape (N, out_features) and GCN.forward one of shape (N, n_class).
C4_OutputShape ==
    /\ (call.op = "forward" /\ Compatible(Receiver, call.input, call.adj))
          => (IsTensor(result)
              /\ result.shape = <<Rows(call.input), Receiver.out_features>>)
    /\ (call.op = "GCN.forward"
        /\ Compatible(call.self.gc1, call.input, call.adj))
          => (IsTensor(result)
              /\ result.shape = <<Rows(call.input), call.self.gc2.out_features>>)

\* C5: a layer has a bias vector of length out_features iff it was constructed
\* with bias = true, at construction and across every later call, and a layer
\* without bias returns from forward the product with nothing added.
C5_BiasIffFlag ==
    [][/\ (call'.op = "GraphConvolution" /\ ~IsError(result'))
            => /\ HasBias(result') <=> call'.bias
               /\ HasBias(result') => result'.bias.shape = <<call'.out_features>>
       /\ (net.kind = "GraphConvolution" /\ net'.kind = "GraphConvolution")
            => net'.bias.kind = net.bias.kind
       /\ (/\ call'.op = "forward"
           /\ ~HasBias(Layer(call'.self, call'.path))
           /\ Compatible(Layer(call'.self, call'.path), call'.input, call'.adj))
            => result' = mm(call'.adj,
                            mm(call'.input, Layer(call'.self, call'.path).weight))
      ]_vars

\* C6: in evaluation mode GCN.forward passes the hidden activations through
\* the dropout step unchanged for every dropout probability, so its output is
\* the function log_softmax(gc2(relu(gc1(x, adj)), adj)) of the parameters,
\* the input and the adjacency alone.
C6_EvalModeHasNoDropout ==
    (/\ call.op = "GCN.forward"
     /\ ~call.self.training
     /\ Compatible(call.self.gc1, call.input, call.adj))
        => /\ IsTensor(result)
           /\ result = log_softmax(
                  Convolved(call.self.gc2,
                            relu(Convolved(call.self.gc1, call.input, call.adj)),
                            call.adj))

\* C7: forward calls, successful or failing, leave the object as it was; the
\* weights, biases, feature counts, dropout value and layers change only in a
\* constructor or a reset_parameters call.
C7_ForwardMutatesNothing ==
    [][/\ call'.op \in {"forward", "GCN.forward"} => net' = net
       /\ (net.kind = "GCN" /\ net'.kind = "GCN"
           /\ <<net'.gc1, net'.gc2, net'.dropout>> # <<net.gc1, net.gc2, net.dropout>>)
            => call'.op = "reset_parameters"
       /\ (net.kind = "GraphConvolution" /\ net' # net)
            => call'.op = "reset_parameters"
      ]_vars

C7_Witness ==
    /\ call.op \in {"forward", "GCN.forward"}
    /\ net = call.self
    /\ net.kind = "GCN"
    /\ net.gc1.in_features > 0
    /\ net.gc1.weight.data[1][1] # 0
    /\ IsError(result)

\* C8 as stated: constructing a layer with in_features <= 0 or
\* out_features <= 0 fails at construction and creates no layer.
C8_NonPositiveDimensionsRefused ==
    (/\ call.op = "GraphConvolution"
     /\ (call.in_features <= 0 \/ call.out_features <= 0))
        => (IsError(result) /\ net.kind = "None")

\* C8 as amended: constructing a layer fails, creating no layer, exactly when
\* in_features < 0 or out_features <= 0 (the allocator refuses a negative
\* dimension, reset_parameters divides by zero for out_features = 0);
\* in_features = 0 with out_features > 0 constructs a layer whose weight has
\* no rows.
C8_ConstructionFailsIffNegativeOrNoOutput ==
    call.op = "GraphConvolution"
        => /\ IsError(result)
                <=> (call.in_features < 0 \/ call.out_features <= 0)
           /\ IsError(result) => net.kind = "None"
           /\ (call.in_features < 0 \/ call.out_features < 0)
                => (IsError(result) /\ result.type = "RuntimeError")
           /\ (call.in_features >= 0 /\ call.out_features = 0)
                => (IsError(result) /\ result.type = "ZeroDivisionError")
           /\ ~IsError(result)
                => /\ net = result
                   /\ net.weight.shape = <<call.in_features, call.out_features>>

C8_Witness ==
    /\ call.op = "GraphConvolution"
    /\ call.in_features < 0
    /\ call.out_features > 0
    /\ IsError(result)
    /\ net.kind = "None"

\* C9 as stated: constructing a GCN with dropout outside [0, 1) fails at
\* construction, so every constructed model has 0 <= dropout < 1.
C9_DropoutOutsideUnitRangeRefused ==
    /\ (call.op = "GCN" /\ ~InUnitRange(call.dropout)) => IsError(result)
    /\ net.kind = "GCN" => InUnitRange(net.dropout)

\* C9 as amended: GCN's constructor does not look at dropout.  It fails
\* exactly when n_feat < 0, n_hid <= 0 or n_class <= 0, and otherwise stores
\* the dropout argument as given, inside [0, 1) or not.
C9_DropoutStoredUnchecked ==
    call.op = "GCN"
        => /\ IsError(result)
                <=> (call.n_feat < 0 \/ call.n_hid <= 0 \/ call.n_class <= 0)
           /\ ~IsError(result)
                => (net = result /\ net.dropout = call.dropout)

C9_Witness ==
    /\ call.op = "GCN"
    /\ ~InUnitRange(call.dropout)
    /\ ~IsError(result)
    /\ net.kind = "GCN"
    /\ net.dropout = call.dropout

====
